---- MODULE Spec2Model ----
(***************************************************************************)
(* Model of the psf crate (src/src/lib.rs): the PSF1/PSF2 header parser    *)
(* Font::parse_font_data, the glyph lookups Font::get_char and             *)
(* Font::get_char_owned, and the pixel lookup Glyph::get.                  *)
(*                                                                         *)
(* A byte is a natural number in 0..255.  A Rust panic (a failed unwrap,   *)
(* a failed assert!, an out-of-range slice or index, an arithmetic         *)
(* overflow in a build with overflow checks) is the outcome "Panic"; the   *)
(* field why says which one.  After a panic the program has stopped.       *)
(***************************************************************************)
EXTENDS Integers, Sequences, FiniteSets

(* ----------------------------- bounds ---------------------------------- *)

\* glyph heights 0..MaxHeight are written into the header's height field
MaxHeight == 2
\* a PSF2 buffer carries 0..MaxTailGlyphs whole glyphs after its header
MaxTailGlyphs == 3
\* pixel and character queries go up to MaxOver past the declared bound
MaxOver == 1

(* ------------------------- program constants --------------------------- *)

Psf1Magic0 == 54
Psf2Magic0 == 114
Psf1Magic1 == 4
Psf2Magic1 == 181
Psf2Magic2 == 74
Psf2Magic3 == 134
Psf1HeaderSize == 4
Psf2HeaderSize == 32
Psf2HeaderOffset == 32
MaxNoChars == 65536
MaxChar == 1114111

U8(n) == n % 256

(* --------------------- std::slice::Iter<u8> ---------------------------- *)

\* raw_data.iter(): nothing consumed yet
NewIter == [pos |-> 0, ok |-> TRUE]

\* *data.next().unwrap(): the next byte; ok becomes FALSE when the iterator
\* is exhausted (the unwrap panics)
ItNext(raw, it) ==
    IF it.ok /\ it.pos < Len(raw)
    THEN [v |-> raw[it.pos + 1], it |-> [pos |-> it.pos + 1, ok |-> TRUE]]
    ELSE [v |-> 0, it |-> [pos |-> it.pos, ok |-> FALSE]]

\* data.as_slice().len(): the bytes not yet consumed
Remaining(raw, it) == Len(raw) - it.pos

\* a u32 is its low and its high 16 bits
U32(n) == [lo |-> n % 65536, hi |-> n \div 65536]

\* u32 as u8
AsU8(u) == u.lo % 256

as_le_u32(raw, it) ==
    LET a == ItNext(raw, it)
        b == ItNext(raw, a.it)
        c == ItNext(raw, b.it)
        d == ItNext(raw, c.it)
    IN  [v |-> [lo |-> a.v + b.v * 256, hi |-> c.v + d.v * 256], it |-> d.it]

\* a 16-bit read that consumes one byte only
as_le_u16_short(raw, it) ==
    LET a == ItNext(raw, it)
    IN  [v |-> a.v, it |-> a.it]

as_le_u16(raw, it) ==
    LET a == ItNext(raw, it)
        b == ItNext(raw, a.it)
    IN  [v |-> a.v + b.v * 256, it |-> b.it]

RECURSIVE get_data(_, _, _)
get_data(raw, it, count) ==
    IF count = 0
    THEN [v |-> <<>>, it |-> it]
    ELSE LET a == ItNext(raw, it)
             r == get_data(raw, a.it, count - 1)
         IN  [v |-> <<a.v>> \o r.v, it |-> r.it]

(* ------------------------- parse results ------------------------------- *)

Unparsed == [tag |-> "Unparsed", err |-> "", why |-> "", font_data_offset |-> 0,
             count |-> 0, width |-> 0, height |-> 0, byte_width |-> 0]

Err(e) == [Unparsed EXCEPT !.tag = "Err", !.err = e]

Panic(w) == [Unparsed EXCEPT !.tag = "Panic", !.why = w]

\* lines 264-277: the consumed header bytes, the header-size assertion and
\* the Font
FinishFont(raw, it, mode, count, width, height, byte_width) ==
    LET font_data_offset == Len(raw) - Remaining(raw, it)
    IN  IF mode = 1 /\ font_data_offset # Psf1HeaderSize THEN Panic("assert_offset")
        ELSE IF mode # 1 /\ font_data_offset # Psf2HeaderSize THEN Panic("assert_offset")
        ELSE [tag |-> "Ok", err |-> "", why |-> "",
              font_data_offset |-> font_data_offset, count |-> count,
              width |-> width, height |-> height, byte_width |-> byte_width]

\* the table with the entries of modes 1 and 2 exchanged
Psf1CountSwapped(sel) ==
    CASE sel = 0 -> 256
      [] sel = 1 -> 256
      [] sel = 2 -> 512
      [] sel = 3 -> 512
      [] OTHER -> 0

\* lines 223-229: the glyph count selected by PSF1's mode byte; 0 when the
\* byte is not a mode
Psf1Count(sel) ==
    CASE sel = 0 -> 256
      [] sel = 1 -> 512
      [] sel = 2 -> 256
      [] sel = 3 -> 512
      [] OTHER -> 0

\* lines 216-232
ParseMode1(raw, it0) ==
    IF Len(raw) < 4 THEN Err("InvalidFontFormat")
    ELSE LET m == ItNext(raw, it0) IN
    IF ~m.it.ok THEN Panic("unwrap")
    ELSE IF m.v # Psf1Magic1 THEN Err("InvalidFontFormat")
    ELSE LET s == ItNext(raw, m.it) IN
    IF ~s.it.ok THEN Panic("unwrap")
    ELSE IF Psf1Count(s.v) = 0 THEN Err("InvalidFontFormat")
    ELSE LET h == ItNext(raw, s.it) IN
    IF ~h.it.ok THEN Panic("unwrap")
    ELSE FinishFont(raw, h.it, 1, Psf1Count(s.v), 8, h.v, 1)

\* the rounding written as width / 8 + 1
ByteWidthPlusOne(sum) == U8(sum - 7) \div 8 + 1

\* line 260, the division: the row's bytes from the u8 sum width + 7
ByteWidthOf(sum) == U8(sum) \div 8

\* lines 258-261: u8 arithmetic; checks says whether the build panics on
\* overflow (debug) or wraps (release)
ParseGeometry(raw, it, count, h32, w32, checks) ==
    LET height == AsU8(h32)
        width == AsU8(w32)
        sum == width + 7
    IN  IF sum > 255 /\ checks THEN Panic("overflow")
        ELSE LET byte_width == ByteWidthOf(sum)
                 prod == byte_width * 8
             IN  IF prod > 255 /\ checks THEN Panic("overflow")
                 ELSE IF ~(width <= U8(prod)) THEN Panic("assert_width")
                 ELSE FinishFont(raw, it, 2, count, width, height, byte_width)

\* lines 251-257: flags, count, no_chars, sizeof_char, then the geometry
ParseMode2Fields(raw, it0, checks) ==
    LET flags == get_data(raw, it0, 4) IN
    IF ~flags.it.ok THEN Panic("unwrap")
    ELSE LET lo == ItNext(raw, flags.it)
             hi == ItNext(raw, lo.it)
             count == lo.v + hi.v * 256
         IN
    IF ~hi.it.ok THEN Panic("unwrap")
    ELSE LET no_chars == as_le_u16(raw, hi.it) IN
    IF ~no_chars.it.ok THEN Panic("unwrap")
    ELSE IF no_chars.v > MaxNoChars THEN Err("InvalidFontFormat")
    ELSE LET sizeof_char == as_le_u32(raw, no_chars.it) IN
    IF ~sizeof_char.it.ok THEN Panic("unwrap")
    ELSE LET h32 == as_le_u32(raw, sizeof_char.it) IN
    IF ~h32.it.ok THEN Panic("unwrap")
    ELSE LET w32 == as_le_u32(raw, h32.it) IN
    IF ~w32.it.ok THEN Panic("unwrap")
    ELSE ParseGeometry(raw, w32.it, count, h32.v, w32.v, checks)

\* lines 233-250: length, magic (short-circuit ||), version, header offset
ParseMode2(raw, it0, checks) ==
    IF Len(raw) < 32 THEN Err("InvalidFontFormat")
    ELSE LET m1 == ItNext(raw, it0) IN
    IF ~m1.it.ok THEN Panic("unwrap")
    ELSE IF m1.v # Psf2Magic1 THEN Err("InvalidFontFormat")
    ELSE LET m2 == ItNext(raw, m1.it) IN
    IF ~m2.it.ok THEN Panic("unwrap")
    ELSE IF m2.v # Psf2Magic2 THEN Err("InvalidFontFormat")
    ELSE LET m3 == ItNext(raw, m2.it) IN
    IF ~m3.it.ok THEN Panic("unwrap")
    ELSE IF m3.v # Psf2Magic3 THEN Err("InvalidFontFormat")
    ELSE LET version == get_data(raw, m3.it, 4) IN
    IF ~version.it.ok THEN Panic("unwrap")
    ELSE IF version.v # <<0, 0, 0, 0>> THEN Err("InvalidFontFormat")
    ELSE LET offset == as_le_u32(raw, version.it) IN
    IF ~offset.it.ok THEN Panic("unwrap")
    ELSE IF offset.v # U32(Psf2HeaderOffset) THEN Err("InvalidFontFormat")
    ELSE ParseMode2Fields(raw, offset.it, checks)

\* lines 210-215: the mode from the first byte
ParseMode(raw, checks) ==
    LET b0 == ItNext(raw, NewIter) IN
    IF ~b0.it.ok THEN Panic("unwrap")
    ELSE IF b0.v = Psf1Magic0 THEN ParseMode1(raw, b0.it)
    ELSE IF b0.v = Psf2Magic0 THEN ParseMode2(raw, b0.it, checks)
    ELSE Err("InvalidFontFormat")

\* an empty buffer reported as Error::Unknown
parse_font_data_unknown(raw, checks) ==
    IF raw = <<>> THEN Err("Unknown") ELSE ParseMode(raw, checks)

\* lines 201-278
parse_font_data(raw, checks) ==
    IF raw = <<>> THEN Err("InvalidFontFormat") ELSE ParseMode(raw, checks)

(* ------------------------------ glyphs --------------------------------- *)

NoGlyph == [tag |-> "NotCalled", d |-> <<>>, h |-> 0, w |-> 0, bw |-> 0,
            kind |-> "", cn |-> 0]

\* lines 152-166 and 171-185: the two lookups differ in the GlyphData
\* variant only (a borrowed slice or its copy)
GlyphOf(font, raw, cn, kind) ==
    IF cn > font.count
    THEN [NoGlyph EXCEPT !.tag = "None", !.cn = cn, !.kind = kind]
    ELSE LET char_byte_length == font.height * font.byte_width
             offset == font.font_data_offset + cn * char_byte_length
         IN  IF offset + char_byte_length > Len(raw)
             THEN [NoGlyph EXCEPT !.tag = "Panic", !.cn = cn, !.kind = kind]
             ELSE [tag |-> "Some",
                   d |-> SubSeq(raw, offset + 1, offset + char_byte_length),
                   h |-> font.height, w |-> font.width, bw |-> font.byte_width,
                   kind |-> kind, cn |-> cn]

get_char(font, raw, cn) == GlyphOf(font, raw, cn, "ByRef")

get_char_owned(font, raw, cn) == GlyphOf(font, raw, cn, "ByCopy")

NoPixel == [tag |-> "NotCalled", val |-> FALSE, x |-> 0, y |-> 0]

\* the bits counted from the least significant end
BitOfLsbFirst(byte, x) == ((byte \div (2 ^ (x % 8))) % 2) # 0

\* line 66: (bit >> (7 - (x % 8)) & 0b1) != 0
BitOf(byte, x) == ((byte \div (2 ^ (7 - (x % 8)))) % 2) # 0

\* lines 57-68
Glyph_get(g, x, y) ==
    IF x > g.w \/ y > g.h
    THEN [tag |-> "None", val |-> FALSE, x |-> x, y |-> y]
    ELSE LET i == y * g.bw + x \div 8
         IN  IF i >= Len(g.d)
             THEN [tag |-> "Panic", val |-> FALSE, x |-> x, y |-> y]
             ELSE [tag |-> "Some", val |-> BitOf(g.d[i + 1], x), x |-> x, y |-> y]

(* --------------------------- input buffers ----------------------------- *)

LE16(n) == <<n % 256, (n \div 256) % 256>>

LE32(n) == <<n % 256, (n \div 256) % 256, (n \div 65536) % 256, (n \div 16777216) % 256>>

Take(s, n) == SubSeq(s, 1, IF n < Len(s) THEN n ELSE Len(s))

\* the i-th byte of a glyph table: all clear, the row 0b10110000, or bytes
\* that differ from one index to the next
TableByte(i, p) ==
    CASE p = 0 -> 0
      [] p = 1 -> 176
      [] OTHER -> (i * 37 + 11) % 256

Table(n, p) == [i \in 1..n |-> TableByte(i, p)]

Patterns == {0, 1, 2}

Psf1Header(b1, sel, h) == <<Psf1Magic0, b1, sel, h>>

Psf2Header(magic, version, off, flags, count, no_chars, sizeof_char, h32, w32) ==
    magic \o version \o off \o flags \o LE16(count) \o LE16(no_chars)
          \o sizeof_char \o LE32(h32) \o LE32(w32)

Psf2Magic == <<Psf2Magic0, Psf2Magic1, Psf2Magic2, Psf2Magic3>>

\* a PSF2 header that passes the magic, version and offset checks
Psf2Valid(flags, count, no_chars, sizeof_char, h32, w32) ==
    Psf2Header(Psf2Magic, <<0, 0, 0, 0>>, LE32(Psf2HeaderOffset), flags, count, no_chars,
               sizeof_char, h32, w32)

\* the bytes of one glyph for the header's geometry (rows of ceil(w / 8))
GlyphBytes(h32, w32) == U8(h32) * ((U8(w32) + 7) \div 8)

\* PSF1: every mode byte, every height, tables that are missing, cut short,
\* complete for 256 glyphs, or one glyph longer
Psf1Family ==
    UNION { { Psf1Header(Psf1Magic1, sel, h) \o Table(n, p) :
                sel \in 0..4, n \in {0, 1, 256 * h, 257 * h}, p \in Patterns } :
            h \in 0..MaxHeight }

\* buffers that are empty, too short, or fail a check on the first bytes
RejectFamily ==
    { Take(Psf1Header(Psf1Magic1, 0, 1), n) : n \in 0..3 }
    \cup { <<0>>, <<55, 4, 0, 1>>, Psf1Header(5, 0, 1), Psf1Header(5, 0, 1) \o Table(256, 2) }
    \cup { Take(Psf2Valid(LE32(0), 2, 0, LE32(0), 2, 9), n) : n \in {1, 2, 4, 12, 31} }
    \cup { <<115>> \o Take(Psf2Valid(LE32(0), 2, 0, LE32(0), 2, 9), 31) }
    \cup { Psf2Header(m, v, off, LE32(0), 2, 0, LE32(4), 2, 9) \o Table(12, 2) :
             m \in { Psf2Magic, <<Psf2Magic0, 0, Psf2Magic2, Psf2Magic3>>,
                     <<Psf2Magic0, Psf2Magic1, 0, Psf2Magic3>>,
                     <<Psf2Magic0, Psf2Magic1, Psf2Magic2, 0>> },
             v \in { <<0, 0, 0, 0>>, <<1, 0, 0, 0>>, <<0, 0, 0, 1>> },
             off \in { LE32(0), LE32(32), LE32(33), <<0, 32, 0, 0>>, <<32, 0, 0, 1>>,
                       <<32, 0, 255, 255>> } }

\* PSF2 fields the parser reads and does not use
UnusedFamily ==
    { Psf2Valid(flags, 2, no_chars, sizeof_char, 2, 9) \o Table(12, 2) :
        flags \in {LE32(0), LE32(1), <<255, 255, 255, 255>>}, no_chars \in {0, 65535},
        sizeof_char \in {LE32(0), LE32(4), <<255, 255, 255, 255>>} }

Widths == {0, 1, 8, 9, 248, 249, 264}

Heights == (0..MaxHeight) \cup {257}

Counts == {0, 1, 2, 256}

\* PSF2 geometry: counts with a low and a high byte, heights and widths
\* with bits above the low eight, tables of whole glyphs
GeometryFamily ==
    { Psf2Valid(LE32(0), count, 0, LE32(0), h32, w32) \o Table(g * GlyphBytes(h32, w32), p) :
        count \in Counts, h32 \in Heights, w32 \in Widths,
        g \in 0..MaxTailGlyphs, p \in {1, 2} }

\* PSF2: every value of the width field's low byte
WidthFamily ==
    { Psf2Valid(LE32(0), 1, 0, LE32(0), 1, w32) \o Table(2 * GlyphBytes(1, w32), 2) : w32 \in 0..255 }

Buffers == Psf1Family \cup RejectFamily \cup UnusedFamily \cup GeometryFamily \cup WidthFamily

(* ---------------------------- state machine ---------------------------- *)

VARIABLES raw_data, overflow_checks, font, glyph, pixel

vars == <<raw_data, overflow_checks, font, glyph, pixel>>

Init ==
    /\ raw_data \in Buffers
    /\ overflow_checks \in BOOLEAN
    /\ font = Unparsed
    /\ glyph = NoGlyph
    /\ pixel = NoPixel

\* no panic has stopped the program
Running == font.tag # "Panic" /\ glyph.tag # "Panic" /\ pixel.tag # "Panic"

CharCodes(f) ==
    { c \in {0, 1, f.count - 1, f.count, MaxChar} : c >= 0 }
    \cup ((f.count + 1)..(f.count + MaxOver))

XCoords(g) == { x \in (0..9) \cup {g.w - 1, g.w} : x >= 0 /\ x <= g.w + MaxOver }
              \cup ((g.w + 1)..(g.w + MaxOver))

YCoords(g) == { y \in {0, 1, g.h - 1, g.h} : y >= 0 /\ y <= g.h + MaxOver }
              \cup ((g.h + 1)..(g.h + MaxOver))

ParseFontData ==
    /\ font.tag = "Unparsed"
    /\ font' = parse_font_data(raw_data, overflow_checks)
    /\ UNCHANGED <<raw_data, overflow_checks, glyph, pixel>>

GetChar ==
    /\ font.tag = "Ok" /\ Running
    /\ \E c \in CharCodes(font) : glyph' = get_char(font, raw_data, c)
    /\ pixel' = NoPixel
    /\ UNCHANGED <<raw_data, overflow_checks, font>>

GetCharOwned ==
    /\ font.tag = "Ok" /\ Running
    /\ \E c \in CharCodes(font) : glyph' = get_char_owned(font, raw_data, c)
    /\ pixel' = NoPixel
    /\ UNCHANGED <<raw_data, overflow_checks, font>>

GlyphGet ==
    /\ glyph.tag = "Some" /\ Running
    /\ \E x \in XCoords(glyph), y \in YCoords(glyph) : pixel' = Glyph_get(glyph, x, y)
    /\ UNCHANGED <<raw_data, overflow_checks, font, glyph>>

Next == ParseFontData \/ GetChar \/ GetCharOwned \/ GlyphGet

Spec == Init /\ [][Next]_vars

(* ------------------------------ properties ----------------------------- *)

Parsed == font.tag # "Unparsed"

IsPsf1(raw) == raw # <<>> /\ raw[1] = 54

IsPsf2(raw) == raw # <<>> /\ raw[1] = 114

\* the smallest number of bytes that holds w bits
CeilDiv8(w) == CHOOSE n \in 0..32 : n * 8 >= w /\ (n = 0 \/ (n - 1) * 8 < w)

\* the bits of a byte, most significant first
Bits(byte) == [k \in 1..8 |-> (byte \div (2 ^ (8 - k))) % 2 = 1]

\* the PSF2 header passes every check the format names: length, magic,
\* version 0, header offset 0x20
Psf2HeaderAccepted(raw) ==
    /\ Len(raw) >= 32
    /\ SubSeq(raw, 2, 4) = <<181, 74, 134>>
    /\ SubSeq(raw, 5, 8) = <<0, 0, 0, 0>>
    /\ SubSeq(raw, 9, 12) = <<32, 0, 0, 0>>

\* why a buffer is rejected
Cause(raw) ==
    IF raw = <<>> THEN "empty"
    ELSE IF raw[1] \notin {54, 114} THEN "unrecognized"
    ELSE IF /\ raw[1] = 114 /\ Len(raw) >= 32
            /\ SubSeq(raw, 2, 4) = <<181, 74, 134>>
            /\ SubSeq(raw, 5, 8) = <<0, 0, 0, 0>>
            /\ SubSeq(raw, 9, 12) # <<32, 0, 0, 0>> THEN "offset"
    ELSE "other"

\* C1: after a successful parse, get_char, get_char_owned and Glyph::get
\* complete with None or Some and never panic.
C1_QueriesNeverPanic ==
    font.tag = "Ok" => glyph.tag # "Panic" /\ pixel.tag # "Panic"

\* C2: parse_font_data returns Ok or Err for every buffer and never panics.
C2_ParseNeverPanics ==
    Parsed => font.tag \in {"Ok", "Err"}

\* C3: get_char and get_char_owned return None for every character code at
\* or above the glyph count, and a glyph only for a code below it.
C3_NoneAtOrAboveCount ==
    glyph.tag # "NotCalled" =>
        /\ glyph.cn >= font.count => glyph.tag = "None"
        /\ glyph.tag = "Some" => glyph.cn < font.count

\* C4: Glyph::get returns None exactly when x > width or y > height, and
\* Some for every x <= width and y <= height, the boundary values included.
C4_GetAcceptsBoundary ==
    pixel.tag # "NotCalled" =>
        /\ pixel.tag = "None" <=> (pixel.x > glyph.w \/ pixel.y > glyph.h)
        /\ (pixel.x <= glyph.w /\ pixel.y <= glyph.h) => pixel.tag = "Some"

\* C5: a buffer starting with 0x36 parses iff it has at least 4 bytes, byte 1
\* is 0x04 and byte 2 is in 0..3; the font then has 256 glyphs for mode 0 or
\* 2 and 512 for mode 1 or 3, height byte 3, width 8 and one byte per row.
C5_Psf1Parse ==
    (Parsed /\ IsPsf1(raw_data)) =>
        /\ font.tag = "Ok" <=>
              (Len(raw_data) >= 4 /\ raw_data[2] = 4 /\ raw_data[3] \in 0..3)
        /\ font.tag = "Ok" =>
              /\ font.count = (IF raw_data[3] \in {0, 2} THEN 256 ELSE 512)
              /\ font.height = raw_data[4]
              /\ font.width = 8
              /\ font.byte_width = 1

C5_Witness ==
    /\ font.tag = "Ok" /\ IsPsf1(raw_data) /\ raw_data[3] = 3
    /\ font.count = 512 /\ font.height = 2

\* C6: a buffer starting with 0x72 parses iff it has at least 32 bytes, the
\* magic matches, the version is zero and the header offset is 0x20; no
\* other header field makes the parse fail.
C6_Psf2Parse ==
    (Parsed /\ IsPsf2(raw_data)) =>
        (font.tag = "Ok" <=> Psf2HeaderAccepted(raw_data))

\* C7: for a glyph returned for character code cn and a pixel with
\* x < width, y < height, get(x, y) is Some(b), b being bit 7 - (x mod 8),
\* most significant first, of the buffer's byte at
\* data_offset + cn * height * row_byte_width + y * row_byte_width + x div 8.
C7_PixelIsSourceBit ==
    (pixel.tag # "NotCalled" /\ pixel.x < font.width /\ pixel.y < font.height) =>
        LET i == font.font_data_offset + glyph.cn * font.height * font.byte_width
                   + pixel.y * font.byte_width + pixel.x \div 8
        IN  /\ pixel.tag = "Some"
            /\ i < Len(raw_data)
            /\ pixel.val = Bits(raw_data[i + 1])[(pixel.x % 8) + 1]

\* the row byte 0b10110000 gives true at x = 2 and at x = 3, false at x = 1
C7_Witness ==
    /\ pixel.tag = "Some" /\ pixel.x = 3 /\ pixel.y = 1 /\ pixel.val
    /\ glyph.cn = 1 /\ glyph.w = 9 /\ glyph.h = 2
    /\ raw_data[font.font_data_offset + 4 + 2 + 1] = 176

\* C8 as stated: the error of a failed parse tells the cause, so two buffers
\* rejected for different causes never yield the same error value.
C8_ErrorTellsCause ==
    font.tag = "Err" =>
        \A b \in RejectFamily :
            LET r == parse_font_data(b, overflow_checks)
            IN  (r.tag = "Err" /\ Cause(b) # Cause(raw_data)) => r.err # font.err

\* C8 amended: a failed parse returns the one error InvalidFontFormat, a
\* value without payload, whatever the cause: empty buffer, unknown first
\* byte, header offset other than 0x20 or any other rejection.
C8_OneErrorForEveryCause ==
    font.tag = "Err" => font.err = "InvalidFontFormat"

C8_Witness ==
    /\ font.tag = "Err" /\ Cause(raw_data) = "offset"
    /\ SubSeq(raw_data, 9, 12) = <<33, 0, 0, 0>>

\* C9: every parsed font has row_byte_width = ceil(glyph_width / 8) and
\* glyph_width <= row_byte_width * 8; a PSF2 font's width and height are the
\* low 8 bits of the little-endian 32-bit width and height fields.
C9_RowByteWidth ==
    font.tag = "Ok" =>
        /\ font.byte_width = CeilDiv8(font.width)
        /\ font.width <= font.byte_width * 8
        /\ IsPsf2(raw_data) =>
              (font.height = raw_data[25] /\ font.width = raw_data[29])

C9_Witness ==
    /\ font.tag = "Ok" /\ IsPsf2(raw_data)
    /\ SubSeq(raw_data, 29, 32) = <<8, 1, 0, 0>>
    /\ font.width = 8 /\ font.byte_width = 1

\* C10: a parse that builds the font has consumed exactly the header, so
\* data_offset is 4 for PSF1 and 32 for PSF2, and the header-size assertion
\* fails for no buffer.
C10_HeaderSize ==
    /\ font.tag = "Ok" => font.font_data_offset = (IF IsPsf1(raw_data) THEN 4 ELSE 32)
    /\ font.tag = "Panic" => font.why # "assert_offset"

C10_Witness ==
    /\ font.tag = "Ok" /\ IsPsf2(raw_data) /\ Len(raw_data) > 32
    /\ font.font_data_offset = 32

====
